---------------------------- MODULE Spec2Model ----------------------------
(***************************************************************************)
(* Model of the predict-price edge function (src/unnamed/part_002) of     *)
(* housify-ai and of the validation its client form performs               *)
(* (src/src/pages/PricePrediction.tsx).                                    *)
(*                                                                         *)
(* JavaScript values are tagged records: the tag t is read before any     *)
(* payload field.  Strings whose characters matter (propertyType, area,   *)
(* city) are sequences of one-character strings, tagged "chars"; the      *)
(* other strings are TLA+ strings, tagged "string".                        *)
(* Numbers are integers; the products of the fallback heuristic are       *)
(* computed exactly (multipliers in tenths, percentages in hundredths)     *)
(* and Math.round is floor(x + 1/2).                                       *)
(***************************************************************************)
EXTENDS Integers, Sequences, FiniteSets, TLC

(***************************************************************************)
(* JavaScript values                                                       *)
(***************************************************************************)
Undef == [t |-> "undefined"]
JNull == [t |-> "null"]
NaN == [t |-> "NaN"]
Num(n) == [t |-> "number", n |-> n]
Str(s) == [t |-> "string", s |-> s]
Chars(cs) == [t |-> "chars", cs |-> cs]
Bool(b) == [t |-> "boolean", b |-> b]
Arr(a) == [t |-> "array", a |-> a]
Obj(o) == [t |-> "object", o |-> o]
Fun(name) == [t |-> "function", name |-> name]

\* ToBoolean: what `!x`, `x || y` and `x ? a : b` read.
Truthy(v) ==
  CASE v.t = "undefined" -> FALSE
    [] v.t = "null" -> FALSE
    [] v.t = "NaN" -> FALSE
    [] v.t = "number" -> v.n # 0
    [] v.t = "string" -> v.s # ""
    [] v.t = "chars" -> v.cs # <<>>
    [] v.t = "boolean" -> v.b
    [] OTHER -> TRUE

\* a || b
OrElse(a, b) == IF Truthy(a) THEN a ELSE b

IsNumber(v) == v.t = "number"

\* Math.round(n / d) for d > 0: floor(n/d + 1/2), halves go up.
RoundDiv(n, d) == (2 * n + d) \div (2 * d)

(***************************************************************************)
(* Characters                                                              *)
(***************************************************************************)
Digits == <<"0", "1", "2", "3", "4", "5", "6", "7", "8", "9">>

IsDigit(c) == \E k \in 1..10 : Digits[k] = c

DigitVal(c) == (CHOOSE k \in 1..10 : Digits[k] = c) - 1

Upper == <<"A", "B", "C", "D", "E", "F", "G", "H", "I", "J", "K", "L", "M",
           "N", "O", "P", "Q", "R", "S", "T", "U", "V", "W", "X", "Y", "Z">>

Lower == <<"a", "b", "c", "d", "e", "f", "g", "h", "i", "j", "k", "l", "m",
           "n", "o", "p", "q", "r", "s", "t", "u", "v", "w", "x", "y", "z">>

LowerChar(c) ==
  IF \E k \in 1..26 : Upper[k] = c
  THEN Lower[CHOOSE k \in 1..26 : Upper[k] = c]
  ELSE c

\* String.prototype.toLowerCase on a character sequence.
toLowerCase(cs) == [k \in 1..Len(cs) |-> LowerChar(cs[k])]

\* Number -> decimal text, as String(n) renders a non-negative integer.
RECURSIVE DecimalText(_)
DecimalText(n) ==
  IF n < 10 THEN <<Digits[n + 1]>>
  ELSE Append(DecimalText(n \div 10), Digits[(n % 10) + 1])

(***************************************************************************)
(* parseInt(x) with no radix, on undefined, an integer or a decimal text   *)
(* (no 0x prefix): leading white space is skipped, one sign is read, then  *)
(* the longest run of digits; no digit at all gives NaN.                   *)
(***************************************************************************)
RECURSIVE SkipSpace(_)
SkipSpace(cs) ==
  IF cs # <<>> /\ Head(cs) = " " THEN SkipSpace(Tail(cs)) ELSE cs

RECURSIVE DigitRun(_, _)
DigitRun(cs, acc) ==
  IF cs # <<>> /\ IsDigit(Head(cs))
  THEN DigitRun(Tail(cs), 10 * acc + DigitVal(Head(cs)))
  ELSE acc

ParseIntChars(cs) ==
  LET s == SkipSpace(cs)
      neg == s # <<>> /\ Head(s) = "-"
      signed == s # <<>> /\ Head(s) \in {"-", "+"}
      body == IF signed THEN Tail(s) ELSE s
  IN IF body = <<>> \/ ~IsDigit(Head(body)) THEN NaN
     ELSE Num((IF neg THEN -1 ELSE 1) * DigitRun(body, 0))

parseInt(v) ==
  CASE v.t = "chars" -> ParseIntChars(v.cs)
    [] v.t = "number" -> v
    [] OTHER -> NaN

(***************************************************************************)
(* Words, spelled as character sequences                                   *)
(***************************************************************************)
apartment == <<"a", "p", "a", "r", "t", "m", "e", "n", "t">>

house == <<"h", "o", "u", "s", "e">>

villa == <<"v", "i", "l", "l", "a">>

penthouse == <<"p", "e", "n", "t", "h", "o", "u", "s", "e">>

studio == <<"s", "t", "u", "d", "i", "o">>

unknownType == <<"u", "n", "k", "n", "o", "w", "n", "-", "t", "y", "p", "e">>

newYork == <<"n", "e", "w", " ", "y", "o", "r", "k">>

sanFrancisco == <<"s", "a", "n", " ", "f", "r", "a", "n", "c", "i", "s", "c", "o">>

losAngeles == <<"l", "o", "s", " ", "a", "n", "g", "e", "l", "e", "s">>

seattle == <<"s", "e", "a", "t", "t", "l", "e">>

boston == <<"b", "o", "s", "t", "o", "n">>

miami == <<"m", "i", "a", "m", "i">>

chicago == <<"c", "h", "i", "c", "a", "g", "o">>

austin == <<"a", "u", "s", "t", "i", "n">>

denver == <<"d", "e", "n", "v", "e", "r">>

atlanta == <<"a", "t", "l", "a", "n", "t", "a">>

Miami == <<"M", "i", "a", "m", "i">>

MIAMI == <<"M", "I", "A", "M", "I">>

Nowhereville == <<"N", "o", "w", "h", "e", "r", "e", "v", "i", "l", "l", "e">>

constructorKey == <<"c", "o", "n", "s", "t", "r", "u", "c", "t", "o", "r">>

toStringKey == <<"t", "o", "S", "t", "r", "i", "n", "g">>

valueOfKey == <<"v", "a", "l", "u", "e", "O", "f">>

hasOwnPropertyKey == <<"h", "a", "s", "O", "w", "n", "P", "r", "o", "p", "e", "r", "t", "y">>

isPrototypeOfKey == <<"i", "s", "P", "r", "o", "t", "o", "t", "y", "p", "e", "O", "f">>

propertyIsEnumerableKey == <<"p", "r", "o", "p", "e", "r", "t", "y", "I", "s", "E", "n", "u", "m", "e", "r", "a", "b", "l", "e">>

toLocaleStringKey == <<"t", "o", "L", "o", "c", "a", "l", "e", "S", "t", "r", "i", "n", "g">>

protoKey == <<"_", "_", "p", "r", "o", "t", "o", "_", "_">>

undefinedKey == <<"u", "n", "d", "e", "f", "i", "n", "e", "d">>

(***************************************************************************)
(* calculateBasePriceFromArea and its two lookup tables                    *)
(***************************************************************************)
\* baseRates, in dollars per square foot.
baseRates ==
  (apartment :> 200) @@ (house :> 250) @@ (villa :> 400) @@
  (penthouse :> 500) @@ (studio :> 300)

\* cityMultipliers, in tenths (3.5 is 35).
cityMultipliers ==
  (newYork :> 35) @@ (sanFrancisco :> 30) @@ (losAngeles :> 25) @@
  (seattle :> 22) @@ (boston :> 20) @@ (miami :> 18) @@ (chicago :> 15) @@
  (austin :> 14) @@ (denver :> 13) @@ (atlanta :> 12)

\* `|| 250`
DefaultRate == 250

\* `|| 1.0`, in tenths
DefaultMultiplier == 10

\* Both tables are object literals, so a key they do not own is looked up
\* on Object.prototype: these names yield a function or an object there.
ObjectPrototypeKeys ==
  {constructorKey, toStringKey, valueOfKey, hasOwnPropertyKey,
   isPrototypeOfKey, propertyIsEnumerableKey, toLocaleStringKey, protoKey}

\* ToPropertyKey of the values a request can hold in propertyType.
PropertyKey(v) ==
  CASE v.t = "chars" -> v.cs
    [] v.t = "number" -> DecimalText(v.n)
    [] OTHER -> undefinedKey

\* table[key] for an object literal `table`.
Lookup(table, key) ==
  IF key \in DOMAIN table THEN Num(table[key])
  ELSE IF key \in ObjectPrototypeKeys THEN Fun(key)
  ELSE Undef

Threw(name, message) == [t |-> "throw", name |-> name, message |-> message]

IsThrow(v) == v.t = "throw"

\* A variant of the heuristic in which the state, a parameter the code
\* takes and never reads, weighs in: New York state adds half as much again.
calculateBasePriceFromAreaByState(area, city, state, propertyType) ==
  IF city.t # "chars"
  THEN Threw("TypeError", "city.toLowerCase is not a function")
  ELSE LET baseRate == OrElse(Lookup(baseRates, PropertyKey(propertyType)),
                              Num(DefaultRate))
           cityMultiplier == OrElse(Lookup(cityMultipliers, toLowerCase(city.cs)),
                                    Num(DefaultMultiplier))
           stateWeight == IF state = Str("NY") THEN 3 ELSE 2
       IN IF IsNumber(area) /\ IsNumber(baseRate) /\ IsNumber(cityMultiplier)
          THEN Num(RoundDiv(area.n * baseRate.n * cityMultiplier.n * stateWeight, 20))
          ELSE NaN

\* Math.round(area * baseRate * cityMultiplier): NaN unless all three
\* operands are numbers; city.toLowerCase() throws unless city is a string.
calculateBasePriceFromArea(area, city, state, propertyType) ==
  IF city.t # "chars"
  THEN Threw("TypeError", "city.toLowerCase is not a function")
  ELSE LET baseRate == OrElse(Lookup(baseRates, PropertyKey(propertyType)),
                              Num(DefaultRate))
           cityMultiplier == OrElse(Lookup(cityMultipliers, toLowerCase(city.cs)),
                                    Num(DefaultMultiplier))
       IN IF IsNumber(area) /\ IsNumber(baseRate) /\ IsNumber(cityMultiplier)
          THEN Num(RoundDiv(area.n * baseRate.n * cityMultiplier.n, 10))
          ELSE NaN

(***************************************************************************)
(* The fallback prediction (the catch block of JSON.parse)                 *)
(***************************************************************************)
\* Math.round(basePrice * pct / 100)
RoundPct(basePrice, pct) ==
  IF IsNumber(basePrice) THEN Num(RoundDiv(basePrice.n * pct, 100)) ELSE NaN

FallbackFactors ==
  [location |-> Num(80), size |-> Num(85), bedrooms |-> Num(75),
   bathrooms |-> Num(75), amenities |-> Num(70), market |-> Num(80)]

Comparable(price, distance, similarity) ==
  Obj([price |-> price, distance |-> Str(distance), similarity |-> Num(similarity)])

\* Variants of the fallback prediction: a confidence that follows the price,
\* comparables at 1.05 / 1.08 / 0.92, and a range with its ends exchanged.
FallbackPredictionByPrice(basePrice) ==
  Obj([estimatedPrice |-> basePrice,
       priceRange |-> Obj([min |-> RoundPct(basePrice, 85),
                           max |-> RoundPct(basePrice, 115)]),
       confidence |-> IF IsNumber(basePrice) /\ basePrice.n >= 1000000
                      THEN Num(90) ELSE Num(75),
       factors |-> Obj(FallbackFactors),
       comparableProperties |->
         Arr(<<Comparable(RoundPct(basePrice, 95), "0.5 miles", 92),
               Comparable(RoundPct(basePrice, 108), "0.8 miles", 88),
               Comparable(RoundPct(basePrice, 92), "1.2 miles", 85)>>)])

FallbackPredictionTwoAbove(basePrice) ==
  Obj([estimatedPrice |-> basePrice,
       priceRange |-> Obj([min |-> RoundPct(basePrice, 85),
                           max |-> RoundPct(basePrice, 115)]),
       confidence |-> Num(75),
       factors |-> Obj(FallbackFactors),
       comparableProperties |->
         Arr(<<Comparable(RoundPct(basePrice, 105), "0.5 miles", 92),
               Comparable(RoundPct(basePrice, 108), "0.8 miles", 88),
               Comparable(RoundPct(basePrice, 92), "1.2 miles", 85)>>)])

FallbackPredictionRangeSwapped(basePrice) ==
  Obj([estimatedPrice |-> basePrice,
       priceRange |-> Obj([min |-> RoundPct(basePrice, 115),
                           max |-> RoundPct(basePrice, 85)]),
       confidence |-> Num(75),
       factors |-> Obj(FallbackFactors),
       comparableProperties |->
         Arr(<<Comparable(RoundPct(basePrice, 95), "0.5 miles", 92),
               Comparable(RoundPct(basePrice, 108), "0.8 miles", 88),
               Comparable(RoundPct(basePrice, 92), "1.2 miles", 85)>>)])

FallbackPrediction(basePrice) ==
  Obj([estimatedPrice |-> basePrice,
       priceRange |-> Obj([min |-> RoundPct(basePrice, 85),
                           max |-> RoundPct(basePrice, 115)]),
       confidence |-> Num(75),
       factors |-> Obj(FallbackFactors),
       comparableProperties |->
         Arr(<<Comparable(RoundPct(basePrice, 95), "0.5 miles", 92),
               Comparable(RoundPct(basePrice, 108), "0.8 miles", 88),
               Comparable(RoundPct(basePrice, 92), "1.2 miles", 85)>>)])

\* x.name: a TypeError on undefined and null, undefined on a primitive or
\* on an object without the field.
GetField(x, name) ==
  CASE x.t \in {"undefined", "null"} ->
         Threw("TypeError", "Cannot read properties of undefined or null")
    [] x.t = "object" -> IF name \in DOMAIN x.o THEN x.o[name] ELSE Undef
    [] OTHER -> Undef

(***************************************************************************)
(* The prompt (template literal of the handler)                            *)
(***************************************************************************)
NotProvided == Str("Not provided")

YesNo(v) == IF Truthy(v) THEN Str("Yes") ELSE Str("No")

\* propertyData.amenities.join(', ') || 'None specified': join exists on
\* arrays only; the joined text is kept as the array of its labels.
JoinAmenities(v) ==
  CASE v.t = "array" -> IF v.a = <<>> THEN Str("None specified") ELSE v
    [] v.t \in {"undefined", "null"} ->
         Threw("TypeError", "Cannot read properties of undefined or null")
    [] OTHER -> Threw("TypeError", "propertyData.amenities.join is not a function")

\* One entry per interpolation of the template; an undefined entry is the
\* text "undefined".
BuildPrompt(pd) ==
  LET f(name) == GetField(pd, name)
  IN IF IsThrow(f("propertyType")) THEN f("propertyType")
     ELSE IF IsThrow(JoinAmenities(f("amenities"))) THEN JoinAmenities(f("amenities"))
     ELSE Obj([type |-> f("propertyType"),
               bedrooms |-> f("bedrooms"),
               bathrooms |-> f("bathrooms"),
               area |-> f("area"),
               city |-> f("city"),
               state |-> f("state"),
               zipcode |-> OrElse(f("zipcode"), NotProvided),
               yearBuilt |-> OrElse(f("yearBuilt"), NotProvided),
               parkingSpaces |-> OrElse(f("parkingSpaces"), NotProvided),
               furnished |-> YesNo(f("furnished")),
               petFriendly |-> YesNo(f("petFriendly")),
               amenities |-> JoinAmenities(f("amenities"))])

(***************************************************************************)
(* The client form's validation (handleSubmit)                             *)
(***************************************************************************)
RequiredFields ==
  {"propertyType", "bedrooms", "bathrooms", "area", "city", "state"}

\* A guard that reads the fields as numbers would take "0" for missing.
FormValidZeroIsEmpty(data) ==
  \A name \in RequiredFields :
    Truthy(GetField(data, name)) /\ GetField(data, name) # Str("0")

\* The guard of handleSubmit, negated: every required field is truthy.
FormValid(data) ==
  \A name \in RequiredFields : Truthy(GetField(data, name))

(***************************************************************************)
(* Replies of the remote model: the content text and what JSON.parse      *)
(* makes of it                                                            *)
(***************************************************************************)
ReplyFactors ==
  Obj([location |-> Num(90),
      size |-> Num(80),
      bedrooms |-> Num(70),
      bathrooms |-> Num(70),
      amenities |-> Num(60),
      market |-> Num(85)])

ReplyComparables ==
  Arr(<<Obj([price |-> Num(480000),
      distance |-> Str("0.4 miles"),
      similarity |-> Num(90)]), Obj([price |-> Num(510000),
      distance |-> Str("0.9 miles"),
      similarity |-> Num(85)]), Obj([price |-> Num(530000),
      distance |-> Str("1.5 miles"),
      similarity |-> Num(80)])>>)

ReplyRange ==
  Obj([min |-> Num(450000),
      max |-> Num(550000)])

\* A complete estimate.
CompleteText ==
  "{\"estimatedPrice\":500000,\"priceRange\":{\"min\":450000,\"max\":550000},\"confidence\":85,\"factors\":{\"location\":90,\"size\":80,\"bedrooms\":70,\"bathrooms\":70,\"amenities\":60,\"market\":85},\"comparableProperties\":[{\"price\":480000,\"distance\":\"0.4 miles\",\"similarity\":90},{\"price\":510000,\"distance\":\"0.9 miles\",\"similarity\":85},{\"price\":530000,\"distance\":\"1.5 miles\",\"similarity\":80}]}"

CompleteValue ==
  Obj([estimatedPrice |-> Num(500000),
       priceRange |-> ReplyRange,
       confidence |-> Num(85),
       factors |-> ReplyFactors,
       comparableProperties |-> ReplyComparables])

\* An estimate without priceRange.
NoPriceRangeText ==
  "{\"estimatedPrice\":500000,\"confidence\":85,\"factors\":{\"location\":90,\"size\":80,\"bedrooms\":70,\"bathrooms\":70,\"amenities\":60,\"market\":85},\"comparableProperties\":[{\"price\":480000,\"distance\":\"0.4 miles\",\"similarity\":90},{\"price\":510000,\"distance\":\"0.9 miles\",\"similarity\":85},{\"price\":530000,\"distance\":\"1.5 miles\",\"similarity\":80}]}"

NoPriceRangeValue ==
  Obj([estimatedPrice |-> Num(500000),
       confidence |-> Num(85),
       factors |-> ReplyFactors,
       comparableProperties |-> ReplyComparables])

\* An estimate without factors.
NoFactorsText ==
  "{\"estimatedPrice\":500000,\"priceRange\":{\"min\":450000,\"max\":550000},\"confidence\":85,\"comparableProperties\":[{\"price\":480000,\"distance\":\"0.4 miles\",\"similarity\":90},{\"price\":510000,\"distance\":\"0.9 miles\",\"similarity\":85},{\"price\":530000,\"distance\":\"1.5 miles\",\"similarity\":80}]}"

NoFactorsValue ==
  Obj([estimatedPrice |-> Num(500000),
       priceRange |-> ReplyRange,
       confidence |-> Num(85),
       comparableProperties |-> ReplyComparables])

\* An estimate whose estimatedPrice is 0.
ZeroPriceText ==
  "{\"estimatedPrice\":0,\"priceRange\":{\"min\":450000,\"max\":550000},\"confidence\":85,\"factors\":{\"location\":90,\"size\":80,\"bedrooms\":70,\"bathrooms\":70,\"amenities\":60,\"market\":85},\"comparableProperties\":[{\"price\":480000,\"distance\":\"0.4 miles\",\"similarity\":90},{\"price\":510000,\"distance\":\"0.9 miles\",\"similarity\":85},{\"price\":530000,\"distance\":\"1.5 miles\",\"similarity\":80}]}"

ZeroPriceValue ==
  Obj([estimatedPrice |-> Num(0),
       priceRange |-> ReplyRange,
       confidence |-> Num(85),
       factors |-> ReplyFactors,
       comparableProperties |-> ReplyComparables])

\* All keys present, values out of range, two comparables.
OutOfRangeText ==
  "{\"estimatedPrice\":-5,\"priceRange\":{\"min\":10,\"max\":5},\"confidence\":120,\"factors\":{\"location\":150,\"size\":80,\"bedrooms\":70,\"bathrooms\":70,\"amenities\":60,\"market\":85},\"comparableProperties\":[{\"price\":480000,\"distance\":\"0.4 miles\",\"similarity\":90},{\"price\":510000,\"distance\":\"0.9 miles\",\"similarity\":85}]}"

OutOfRangeValue ==
  Obj([estimatedPrice |-> Num(-5),
       priceRange |-> Obj([min |-> Num(10),
       max |-> Num(5)]),
       confidence |-> Num(120),
       factors |-> Obj([location |-> Num(150),
       size |-> Num(80),
       bedrooms |-> Num(70),
       bathrooms |-> Num(70),
       amenities |-> Num(60),
       market |-> Num(85)]),
       comparableProperties |-> Arr(<<Obj([price |-> Num(480000),
       distance |-> Str("0.4 miles"),
       similarity |-> Num(90)]), Obj([price |-> Num(510000),
       distance |-> Str("0.9 miles"),
       similarity |-> Num(85)])>>)])

\* estimatedPrice and priceRange given as text, factors as an array.
TextValuedText ==
  "{\"estimatedPrice\":\"500000\",\"priceRange\":\"n/a\",\"confidence\":85,\"factors\":[],\"comparableProperties\":[{\"price\":480000,\"distance\":\"0.4 miles\",\"similarity\":90},{\"price\":510000,\"distance\":\"0.9 miles\",\"similarity\":85},{\"price\":530000,\"distance\":\"1.5 miles\",\"similarity\":80}]}"

TextValuedValue ==
  Obj([estimatedPrice |-> Str("500000"),
       priceRange |-> Str("n/a"),
       confidence |-> Num(85),
       factors |-> Arr(<<>>),
       comparableProperties |-> ReplyComparables])

\* {}
EmptyObjectText ==
  "{}"

EmptyObjectValue ==
  Obj(<<>>)

\* null
NullText ==
  "null"

NullValue ==
  JNull

\* A number.
NumberText ==
  "42"

NumberValue ==
  Num(42)

\* A string.
StringText ==
  "\"high\""

StringValue ==
  Str("high")

\* An array.
ArrayText ==
  "[]"

ArrayValue ==
  Arr(<<>>)

\* Texts that are not JSON: prose, and an estimate wrapped in prose.
ProseText == "I estimate the price at about $500,000."

WrappedText ==
  "Here is the estimate: {\"estimatedPrice\":500000}"

\* The JSON texts of the model and their values.
JsonTexts ==
  (CompleteText :> CompleteValue) @@
  (NoPriceRangeText :> NoPriceRangeValue) @@
  (NoFactorsText :> NoFactorsValue) @@
  (ZeroPriceText :> ZeroPriceValue) @@
  (OutOfRangeText :> OutOfRangeValue) @@
  (TextValuedText :> TextValuedValue) @@
  (EmptyObjectText :> EmptyObjectValue) @@
  (NullText :> NullValue) @@
  (NumberText :> NumberValue) @@
  (StringText :> StringValue) @@
  (ArrayText :> ArrayValue)

\* JSON.parse(content): null is read as the text "null", undefined as the
\* text "undefined", which is no JSON; a text is parsed.
JSONParse(content) ==
  CASE content.t = "null" -> JNull
    [] content.t = "string" /\ content.s \in DOMAIN JsonTexts -> JsonTexts[content.s]
    [] OTHER -> Threw("SyntaxError", "Unexpected token")

(***************************************************************************)
(* The handler after `await response.json()`                               *)
(***************************************************************************)
\* a[0]
First(a) == IF a.t = "array" /\ a.a # <<>> THEN a.a[1] ELSE Undef

\* data.choices[0].message.content, behind the guard
\* `!data.choices || !data.choices[0] || !data.choices[0].message`.
ExtractContent(data) ==
  LET choices == GetField(data, "choices")
      message == GetField(First(choices), "message")
  IN IF IsThrow(choices) THEN choices
     ELSE IF ~Truthy(choices) \/ ~Truthy(First(choices)) \/ ~Truthy(message)
     THEN Threw("Error", "Invalid response from OpenAI")
     ELSE GetField(message, "content")

\* The catch block of JSON.parse: the heuristic on the request's fields.
Fallback(propertyData) ==
  LET basePrice == calculateBasePriceFromArea(
                     parseInt(GetField(propertyData, "area")),
                     GetField(propertyData, "city"),
                     GetField(propertyData, "state"),
                     GetField(propertyData, "propertyType"))
  IN IF IsThrow(basePrice) THEN basePrice ELSE FallbackPrediction(basePrice)

\* A check of the price alone.
ValidatePriceOnly(prediction) ==
  LET estimatedPrice == GetField(prediction, "estimatedPrice")
  IN IF IsThrow(estimatedPrice) THEN estimatedPrice
     ELSE IF ~Truthy(estimatedPrice)
     THEN Threw("Error", "Invalid prediction structure received from AI")
     ELSE prediction

\* `if (!prediction.estimatedPrice || !prediction.priceRange ||
\*      !prediction.factors) throw ...`
Validate(prediction) ==
  LET estimatedPrice == GetField(prediction, "estimatedPrice")
  IN IF IsThrow(estimatedPrice) THEN estimatedPrice
     ELSE IF \/ ~Truthy(estimatedPrice)
             \/ ~Truthy(GetField(prediction, "priceRange"))
             \/ ~Truthy(GetField(prediction, "factors"))
     THEN Threw("Error", "Invalid prediction structure received from AI")
     ELSE prediction

(***************************************************************************)
(* Responses                                                               *)
(***************************************************************************)
NoResponse == [kind |-> "none"]

\* new Response(null, { headers: corsHeaders })
Preflight == [kind |-> "preflight", status |-> 200, cors |-> TRUE, body |-> JNull]

\* JSON.stringify({ prediction }) with the CORS headers
Success(prediction) ==
  [kind |-> "success", status |-> 200, cors |-> TRUE,
   body |-> Obj([prediction |-> prediction])]

\* The catch of the handler: status 500 and the error's message.
Failure(error) ==
  [kind |-> "error", status |-> 500, cors |-> TRUE,
   body |-> Obj([error |-> Str("Failed to generate price prediction"),
                 message |-> Str(error.message)])]

\* Everything from `const data = await response.json()` to the response:
\* the content, the parse or the fallback, the validation.
HandleData(propertyData, data) ==
  LET content == IF IsThrow(data) THEN data ELSE ExtractContent(data)
      parsed == JSONParse(content)
      fell == ~IsThrow(content) /\ IsThrow(parsed)
      made == IF fell THEN Fallback(propertyData) ELSE parsed
      checked == IF IsThrow(made) THEN made ELSE Validate(made)
  IN IF IsThrow(content)
     THEN [response |-> Failure(content), prediction |-> Undef, fallback |-> FALSE]
     ELSE [response |-> IF IsThrow(checked) THEN Failure(checked) ELSE Success(checked),
           prediction |-> IF IsThrow(made) THEN Undef ELSE made,
           fallback |-> fell]

(***************************************************************************)
(* Inputs: request bodies                                                  *)
(*                                                                         *)
(* A request body is a JSON object; a key whose value is Undef here is a   *)
(* key the body does not carry (GetField reads both as undefined).         *)
(***************************************************************************)
\* Small areas 0..MaxSmallArea are enumerated next to the areas of the
\* documented scenarios.
MaxSmallArea == 3

\* What the form posts once filled in with a villa in Miami: every field
\* of formData, text fields as text.
BaseRequest ==
  [propertyType |-> Chars(villa), bedrooms |-> Str("2"), bathrooms |-> Str("1.5"),
   area |-> Chars(DecimalText(2000)), address |-> Str(""), city |-> Chars(Miami),
   state |-> Str("FL"), zipcode |-> Str(""), yearBuilt |-> Str(""),
   parkingSpaces |-> Str(""), furnished |-> Bool(FALSE),
   petFriendly |-> Bool(FALSE), amenities |-> Arr(<<>>)]

PropertyTypes ==
  {Undef, Chars(<<>>), Chars(villa), Chars(apartment), Chars(unknownType),
   Chars(constructorKey)}

Areas ==
  {Undef, Chars(<<>>), Chars(<<"-", "5">>), Chars(<<"1", "2", ".", "5">>),
   Num(1000)}
  \cup {Chars(DecimalText(n)) : n \in (0..MaxSmallArea) \cup {1000, 2000}}

Cities ==
  {Undef, Chars(<<>>), Chars(Miami), Chars(MIAMI), Chars(miami),
   Chars(Nowhereville), Chars(constructorKey)}

FieldNames == DOMAIN BaseRequest

\* Requests that vary the three inputs of the heuristic.
HeuristicRequests ==
  {Obj([BaseRequest EXCEPT !.propertyType = t, !.area = a, !.city = c]) :
     t \in PropertyTypes, a \in Areas, c \in Cities}

\* Requests that lack one field.
LackingRequests ==
  {Obj([BaseRequest EXCEPT ![name] = Undef]) : name \in FieldNames}

\* Requests that fill in the optional fields.
OptionalRequests ==
  {Obj([BaseRequest EXCEPT !.zipcode = Str("33101"), !.yearBuilt = Str("1999")]),
   Obj([BaseRequest EXCEPT !.parkingSpaces = Str("0")]),
   Obj([BaseRequest EXCEPT !.parkingSpaces = Num(0)]),
   Obj([BaseRequest EXCEPT !.parkingSpaces = Num(2)]),
   Obj([BaseRequest EXCEPT !.furnished = Bool(TRUE), !.petFriendly = Bool(TRUE)]),
   Obj([BaseRequest EXCEPT !.address = Str("1 Ocean Drive")]),
   Obj([BaseRequest EXCEPT !.amenities = Arr(<<Str("Gym"), Str("Garden")>>)]),
   Obj([BaseRequest EXCEPT !.amenities = Str("Gym")])}

\* A body that req.json() cannot parse.
MalformedBody == [t |-> "malformed"]

Bodies ==
  HeuristicRequests \cup LackingRequests \cup OptionalRequests
    \cup {JNull, MalformedBody}

\* Requests of two concurrent invocations: they vary the inputs of the
\* heuristic and two fields it ignores.
PairBodies ==
  {Obj([BaseRequest EXCEPT !.propertyType = t, !.area = a, !.city = c,
                           !.state = s]) :
     t \in {Chars(villa), Chars(unknownType)},
     a \in {Chars(DecimalText(2000)), Chars(DecimalText(MaxSmallArea))},
     c \in {Chars(Miami), Chars(MIAMI)},
     s \in {Str("FL"), Str("NY")}}

(***************************************************************************)
(* Inputs: what the remote call can do                                     *)
(***************************************************************************)
\* fetch rejects (DNS, connection reset, ...)
NetworkError == [t |-> "network"]

\* fetch resolves with this status
Status(code) == [t |-> "status", code |-> code]

\* response.ok
Ok(code) == code >= 200 /\ code <= 299

FetchOutcomes == {NetworkError, Status(200), Status(429), Status(500)}

PairFetchOutcomes == {NetworkError, Status(200)}

\* A chat completion whose first choice carries `content`.
Completion(content) ==
  Obj([choices |-> Arr(<<Obj([message |-> Obj([role |-> Str("assistant"),
                                                content |-> content])])>>)])

Contents ==
  {Str(s) : s \in DOMAIN JsonTexts} \cup {Str(ProseText), Str(WrappedText), JNull, Undef}

\* What `await response.json()` yields: a rejection when the body is no
\* JSON, else the decoded body.
ResponseBodies ==
  {Threw("SyntaxError", "Unexpected token"),
   JNull,
   Obj([error |-> Str("rate limited")]),
   Obj([choices |-> Arr(<<>>)]),
   Obj([choices |-> Arr(<<Obj([finish_reason |-> Str("length")])>>)])}
  \cup {Completion(c) : c \in Contents}

PairResponseBodies ==
  {Completion(Str(ProseText)), Completion(Str(WrappedText)),
   Completion(Str(CompleteText))}

(***************************************************************************)
(* State                                                                   *)
(***************************************************************************)
\* Handler invocations that can be in flight together.
Invocations == {1, 2}

VARIABLES
  pc,            \* where each invocation stands
  req,           \* the request: method and body
  propertyData,  \* the parsed body
  prompt,        \* the prompt built from it
  fetches,       \* remote calls this invocation has issued
  remote,        \* what the remote call did: fetch outcome and body
  prediction,    \* the handler's `prediction`
  fallback,      \* whether the catch block of JSON.parse ran
  response,      \* the response returned
  formData,      \* the form's fields (PricePrediction.tsx)
  loading,       \* the form's `loading`
  formPrediction,\* the form's `prediction` state, the estimate on display
  toast,         \* title of the last toast shown
  event,         \* the last form handler the user set off
  user,          \* the properties page: useAuth().user
  favorites,     \* its local `favorites` set
  stored,        \* the signed-in user's rows of user_favorites
  properties,    \* the list on display
  pageLoading,   \* its `loading`
  query,         \* the filters the last effect ran with
  requests,      \* its requests in flight
  pageToast      \* title of the last toast of the page

serverVars ==
  <<pc, req, propertyData, prompt, fetches, remote, prediction, fallback, response>>

formVars == <<formData, loading, formPrediction, toast, event>>

pageVars ==
  <<user, favorites, stored, properties, pageLoading, query, requests, pageToast>>

vars ==
  <<pc, req, propertyData, prompt, fetches, remote, prediction, fallback, response,
    formData, loading, formPrediction, toast, event,
    user, favorites, stored, properties, pageLoading, query, requests, pageToast>>

NoRequest == [method |-> "none", body |-> Undef]

NoRemote == [fetch |-> Undef, data |-> Undef]

\* useState of formData, and what resetForm restores.
EmptyForm ==
  [propertyType |-> Chars(<<>>), bedrooms |-> Str(""), bathrooms |-> Str(""),
   area |-> Chars(<<>>), address |-> Str(""), city |-> Chars(<<>>),
   state |-> Str(""), zipcode |-> Str(""), yearBuilt |-> Str(""),
   parkingSpaces |-> Str(""), furnished |-> Bool(FALSE),
   petFriendly |-> Bool(FALSE), amenities |-> Arr(<<>>)]

\* No handler of the form has run yet.
NoEvent == [name |-> "none", arg |-> Undef]

Init ==
  /\ pc = [i \in Invocations |-> "idle"]
  /\ req = [i \in Invocations |-> NoRequest]
  /\ propertyData = [i \in Invocations |-> Undef]
  /\ prompt = [i \in Invocations |-> Undef]
  /\ fetches = [i \in Invocations |-> 0]
  /\ remote = [i \in Invocations |-> NoRemote]
  /\ prediction = [i \in Invocations |-> Undef]
  /\ fallback = [i \in Invocations |-> FALSE]
  /\ response = [i \in Invocations |-> NoResponse]
  /\ formData = EmptyForm
  /\ loading = FALSE
  /\ formPrediction = JNull
  /\ toast = "none"
  /\ event = NoEvent
  /\ user = JNull
  /\ favorites = {}
  /\ stored = {}
  /\ properties = <<>>
  /\ pageLoading = TRUE
  /\ query = Undef
  /\ requests = {}
  /\ pageToast = "none"

(***************************************************************************)
(* The handler, one action per stretch between two awaits                  *)
(***************************************************************************)
\* A handler without the OPTIONS branch: the preflight goes on like any
\* other request.
ReceiveWithoutPreflight(i, bodies) ==
  /\ pc[i] = "idle"
  /\ \E method \in {"OPTIONS", "POST"}, body \in bodies :
       /\ req' = [req EXCEPT ![i] = [method |-> method, body |-> body]]
       /\ response' = response
       /\ pc' = [pc EXCEPT ![i] = "body"]
  /\ UNCHANGED <<propertyData, prompt, fetches, remote, prediction, fallback>>

\* A request arrives: OPTIONS is answered at once, anything else goes on
\* to read its body.
Receive(i, bodies) ==
  /\ pc[i] = "idle"
  /\ \E method \in {"OPTIONS", "POST"}, body \in bodies :
       /\ req' = [req EXCEPT ![i] = [method |-> method, body |-> body]]
       /\ IF method = "OPTIONS"
          THEN /\ response' = [response EXCEPT ![i] = Preflight]
               /\ pc' = [pc EXCEPT ![i] = "done"]
          ELSE /\ response' = response
               /\ pc' = [pc EXCEPT ![i] = "body"]
  /\ UNCHANGED <<propertyData, prompt, fetches, remote, prediction, fallback>>

\* `await req.json()` settles: the prompt is built and the fetch issued,
\* unless one of them throws into the handler's catch.
ReadBody(i) ==
  /\ pc[i] = "body"
  /\ LET body == req[i].body
         built == IF body = MalformedBody
                  THEN Threw("SyntaxError", "Unexpected token")
                  ELSE BuildPrompt(body)
     IN IF IsThrow(built)
        THEN /\ response' = [response EXCEPT ![i] = Failure(built)]
             /\ propertyData' = [propertyData EXCEPT ![i] =
                                   IF body = MalformedBody THEN Undef ELSE body]
             /\ pc' = [pc EXCEPT ![i] = "done"]
             /\ UNCHANGED <<prompt, fetches>>
        ELSE /\ propertyData' = [propertyData EXCEPT ![i] = body]
             /\ prompt' = [prompt EXCEPT ![i] = built]
             /\ fetches' = [fetches EXCEPT ![i] = @ + 1]
             /\ pc' = [pc EXCEPT ![i] = "fetching"]
             /\ response' = response
  /\ UNCHANGED <<req, remote, prediction, fallback>>

\* A handler that answered a failed fetch by issuing it once more.
FetchSettlesRetrying(i, outcomes) ==
  /\ pc[i] = "fetching"
  /\ \E outcome \in outcomes :
       /\ remote' = [remote EXCEPT ![i].fetch = outcome]
       /\ IF outcome = NetworkError \/ ~Ok(outcome.code)
          THEN IF fetches[i] < 2
               THEN /\ fetches' = [fetches EXCEPT ![i] = @ + 1]
                    /\ UNCHANGED <<pc, response>>
               ELSE /\ response' = [response EXCEPT ![i] =
                                      Failure(Threw("Error", "OpenAI API error"))]
                    /\ pc' = [pc EXCEPT ![i] = "done"]
                    /\ fetches' = fetches
          ELSE /\ pc' = [pc EXCEPT ![i] = "reading"]
               /\ UNCHANGED <<response, fetches>>
  /\ UNCHANGED <<req, propertyData, prompt, prediction, fallback>>

\* `await fetch(...)` settles: a rejection or a non-success status throws
\* into the handler's catch, a success status goes on to read the body.
FetchSettles(i, outcomes) ==
  /\ pc[i] = "fetching"
  /\ \E outcome \in outcomes :
       /\ remote' = [remote EXCEPT ![i].fetch = outcome]
       /\ IF outcome = NetworkError
          THEN /\ response' = [response EXCEPT ![i] =
                                 Failure(Threw("TypeError", "error sending request"))]
               /\ pc' = [pc EXCEPT ![i] = "done"]
          ELSE IF ~Ok(outcome.code)
          THEN /\ response' = [response EXCEPT ![i] =
                                 Failure(Threw("Error", "OpenAI API error"))]
               /\ pc' = [pc EXCEPT ![i] = "done"]
          ELSE /\ response' = response
               /\ pc' = [pc EXCEPT ![i] = "reading"]
  /\ UNCHANGED <<req, propertyData, prompt, fetches, prediction, fallback>>

\* A handler that kept propertyData in one module-level variable: the
\* request last read is the one every invocation goes on with.
ResponseBodyReadShared(i, datas) ==
  /\ pc[i] = "reading"
  /\ \E data \in datas :
       LET other == CHOOSE j \in Invocations : j # i
           shared == IF propertyData[other] # Undef
                     THEN propertyData[other] ELSE propertyData[i]
           out == HandleData(shared, data)
       IN /\ remote' = [remote EXCEPT ![i].data = data]
          /\ prediction' = [prediction EXCEPT ![i] = out.prediction]
          /\ fallback' = [fallback EXCEPT ![i] = out.fallback]
          /\ response' = [response EXCEPT ![i] = out.response]
          /\ pc' = [pc EXCEPT ![i] = "done"]
  /\ UNCHANGED <<req, propertyData, prompt, fetches>>

\* `await response.json()` settles and the handler runs to its response.
ResponseBodyRead(i, datas) ==
  /\ pc[i] = "reading"
  /\ \E data \in datas :
       LET out == HandleData(propertyData[i], data)
       IN /\ remote' = [remote EXCEPT ![i].data = data]
          /\ prediction' = [prediction EXCEPT ![i] = out.prediction]
          /\ fallback' = [fallback EXCEPT ![i] = out.fallback]
          /\ response' = [response EXCEPT ![i] = out.response]
          /\ pc' = [pc EXCEPT ![i] = "done"]
  /\ UNCHANGED <<req, propertyData, prompt, fetches>>

\* The response is sent; the invocation's locals are gone.
Return(i) ==
  /\ pc[i] = "done"
  /\ pc' = [pc EXCEPT ![i] = "idle"]
  /\ req' = [req EXCEPT ![i] = NoRequest]
  /\ propertyData' = [propertyData EXCEPT ![i] = Undef]
  /\ prompt' = [prompt EXCEPT ![i] = Undef]
  /\ fetches' = [fetches EXCEPT ![i] = 0]
  /\ remote' = [remote EXCEPT ![i] = NoRemote]
  /\ prediction' = [prediction EXCEPT ![i] = Undef]
  /\ fallback' = [fallback EXCEPT ![i] = FALSE]
  /\ response' = [response EXCEPT ![i] = NoResponse]

\* The promise an invocation awaits (req.json(), fetch, response.json())
\* settles and the handler runs on to its next await or to its response.
AwaitSettles(i) ==
  /\ pc[i] \in {"body", "fetching", "reading"}
  /\ \E next \in {"fetching", "reading", "done"} :
       /\ next # pc[i]
       /\ pc' = [pc EXCEPT ![i] = next]

\* One invocation at a time, over every body and every remote behaviour.
Next ==
  \/ Receive(1, Bodies) /\ UNCHANGED <<formVars, pageVars>>
  \/ ReadBody(1) /\ UNCHANGED <<formVars, pageVars>>
  \/ FetchSettles(1, FetchOutcomes) /\ UNCHANGED <<formVars, pageVars>>
  \/ ResponseBodyRead(1, ResponseBodies) /\ UNCHANGED <<formVars, pageVars>>
  \/ Return(1) /\ UNCHANGED <<formVars, pageVars>>

Spec == Init /\ [][Next]_vars

\* The same with every await settling.
SpecLive == Spec /\ WF_pc(AwaitSettles(1))

\* Two invocations interleaved.
NextPair ==
  \E i \in Invocations :
    \/ Receive(i, PairBodies) /\ UNCHANGED <<formVars, pageVars>>
    \/ ReadBody(i) /\ UNCHANGED <<formVars, pageVars>>
    \/ FetchSettles(i, PairFetchOutcomes) /\ UNCHANGED <<formVars, pageVars>>
    \/ ResponseBodyRead(i, PairResponseBodies) /\ UNCHANGED <<formVars, pageVars>>
    \/ Return(i) /\ UNCHANGED <<formVars, pageVars>>

SpecPair == Init /\ [][NextPair]_vars

(***************************************************************************)
(* The form (PricePrediction.tsx)                                          *)
(***************************************************************************)
\* The amenity labels on offer, in the order of their checkboxes.
amenitiesList ==
  <<"Swimming Pool", "Gym", "Parking", "Security", "Elevator", "Balcony",
    "Garden", "Garage", "Fireplace", "Walk-in Closet", "Laundry",
    "Air Conditioning", "Heating", "Hardwood Floors", "Updated Kitchen">>

\* How many of the checkboxes the model clicks.
NumAmenities == 4

AmenityChoices == {Str(amenitiesList[k]) : k \in 1..NumAmenities}

\* formData.amenities.includes(amenity): the checkbox shows as checked.
includes(amenities, amenity) ==
  \E k \in 1..Len(amenities.a) : amenities.a[k] = amenity

\* An uncheck that drops the last label instead of the clicked one.
ToggledAmenitiesDropLast(amenities, amenity, checked) ==
  IF checked
  THEN Arr(Append(amenities.a, amenity))
  ELSE Arr(SubSeq(amenities.a, 1, Len(amenities.a) - 1))

\* checked ? [...prev.amenities, amenity] : prev.amenities.filter(a => a !== amenity)
ToggledAmenities(amenities, amenity, checked) ==
  IF checked
  THEN Arr(Append(amenities.a, amenity))
  ELSE Arr(SelectSeq(amenities.a, LAMBDA a : a # amenity))

\* JSON.stringify followed by JSON.parse, as a body travels between the form
\* and the function: NaN becomes null, everything else the model holds
\* comes back as it was.
RECURSIVE JsonRoundTrip(_)
JsonRoundTrip(v) ==
  CASE v = NaN -> JNull
    [] v.t = "array" -> Arr([k \in DOMAIN v.a |-> JsonRoundTrip(v.a[k])])
    [] v.t = "object" -> Obj([k \in DOMAIN v.o |-> JsonRoundTrip(v.o[k])])
    [] OTHER -> v

\* What the user can put into the fields: a select picks one of its items,
\* a text input can also be emptied.
FormEdits ==
  {<<"propertyType", Chars(villa)>>,
   <<"bedrooms", Str("0")>>,
   <<"bathrooms", Str("1.5")>>,
   <<"area", Chars(DecimalText(0))>>, <<"area", Chars(DecimalText(2000))>>,
   <<"area", Chars(<<>>)>>,
   <<"city", Chars(Miami)>>,
   <<"state", Str("FL")>>}

SwitchEdits ==
  {<<name, Bool(b)>> : name \in {"furnished", "petFriendly"}, b \in BOOLEAN}

\* What the remote model does while the form waits.
FormFetchOutcomes == {NetworkError, Status(200)}

FormResponseBodies == {Completion(Str(ProseText)), Completion(Str(CompleteText))}

handleInputChange(field, value) ==
  /\ formData' = [formData EXCEPT ![field] = value]
  /\ event' = [name |-> "handleInputChange", arg |-> Str(field)]
  /\ UNCHANGED <<loading, formPrediction, toast>>
  /\ UNCHANGED <<serverVars, pageVars>>

\* A click on the checkbox of `amenity`: the checkbox reports the opposite
\* of what it shows.
handleAmenityChange(amenity) ==
  /\ formData' = [formData EXCEPT !.amenities =
                    ToggledAmenities(@, amenity, ~includes(@, amenity))]
  /\ event' = [name |-> "handleAmenityChange", arg |-> amenity]
  /\ UNCHANGED <<loading, formPrediction, toast>>
  /\ UNCHANGED <<serverVars, pageVars>>

\* The invocation slot a request of the form is served in.
FreeSlot ==
  CHOOSE i \in Invocations :
    pc[i] = "idle" /\ \A j \in Invocations : pc[j] = "idle" => i <= j

\* A form whose submit button stayed enabled while loading.
handleSubmitWhileLoading ==
  /\ \E i \in Invocations : pc[i] = "idle"
  /\ IF ~FormValid(Obj(formData))
     THEN /\ toast' = "Missing information"
          /\ event' = [name |-> "handleSubmit", arg |-> Str("rejected")]
          /\ UNCHANGED <<formData, loading, formPrediction>>
          /\ UNCHANGED serverVars
     ELSE /\ loading' = TRUE
          /\ event' = [name |-> "handleSubmit", arg |-> Str("invoked")]
          /\ pc' = [pc EXCEPT ![FreeSlot] = "body"]
          /\ req' = [req EXCEPT ![FreeSlot] =
                       [method |-> "POST", body |-> JsonRoundTrip(Obj(formData))]]
          /\ UNCHANGED <<formData, formPrediction, toast>>
          /\ UNCHANGED <<propertyData, prompt, fetches, remote, prediction,
                         fallback, response>>
  /\ UNCHANGED pageVars

\* The form is submitted (its button is disabled while loading): up to the
\* await of supabase.functions.invoke, whose request goes to an invocation
\* of the function.
handleSubmit ==
  /\ ~loading
  /\ \E i \in Invocations : pc[i] = "idle"
  /\ IF ~FormValid(Obj(formData))
     THEN /\ toast' = "Missing information"
          /\ event' = [name |-> "handleSubmit", arg |-> Str("rejected")]
          /\ UNCHANGED <<formData, loading, formPrediction>>
          /\ UNCHANGED serverVars
     ELSE /\ loading' = TRUE
          /\ event' = [name |-> "handleSubmit", arg |-> Str("invoked")]
          /\ pc' = [pc EXCEPT ![FreeSlot] = "body"]
          /\ req' = [req EXCEPT ![FreeSlot] =
                       [method |-> "POST", body |-> JsonRoundTrip(Obj(formData))]]
          /\ UNCHANGED <<formData, formPrediction, toast>>
          /\ UNCHANGED <<propertyData, prompt, fetches, remote, prediction,
                         fallback, response>>
  /\ UNCHANGED pageVars

\* The invocation settles with the function's response: a status outside
\* 2xx comes back as `error`, which is thrown and caught; else the estimate
\* of the response is put on display. `finally` sets loading to false.
InvokeSettles(i) ==
  /\ Return(i)
  /\ IF response[i].kind = "success"
     THEN /\ formPrediction' = JsonRoundTrip(response[i].body.o.prediction)
          /\ toast' = "Price prediction generated!"
     ELSE /\ formPrediction' = formPrediction
          /\ toast' = "Prediction failed"
  /\ loading' = FALSE
  /\ UNCHANGED <<formData, event>>
  /\ UNCHANGED pageVars

\* The invocation settles without a response: the function was not reached.
InvokeFails(i) ==
  /\ pc[i] = "body"
  /\ pc' = [pc EXCEPT ![i] = "idle"]
  /\ req' = [req EXCEPT ![i] = NoRequest]
  /\ toast' = "Prediction failed"
  /\ loading' = FALSE
  /\ UNCHANGED <<formData, formPrediction, event>>
  /\ UNCHANGED <<propertyData, prompt, fetches, remote, prediction,
                 fallback, response>>
  /\ UNCHANGED pageVars

resetForm ==
  /\ formData' = EmptyForm
  /\ formPrediction' = JNull
  /\ event' = [name |-> "resetForm", arg |-> Undef]
  /\ UNCHANGED <<loading, toast>>
  /\ UNCHANGED <<serverVars, pageVars>>

\* The form with the function behind it.
NextForm ==
  \/ \E edit \in FormEdits : handleInputChange(edit[1], edit[2])
  \/ handleSubmit
  \/ \E i \in Invocations : ReadBody(i) /\ UNCHANGED <<formVars, pageVars>>
  \/ \E i \in Invocations :
       FetchSettles(i, FormFetchOutcomes) /\ UNCHANGED <<formVars, pageVars>>
  \/ \E i \in Invocations :
       ResponseBodyRead(i, FormResponseBodies) /\ UNCHANGED <<formVars, pageVars>>
  \/ \E i \in Invocations : InvokeSettles(i)
  \/ \E i \in Invocations : InvokeFails(i)
  \/ resetForm

SpecForm == Init /\ [][NextForm]_vars

\* Every await settles: the function goes on once the promise it waits for
\* is settled, and so does handleSubmit once the function has answered.
SpecFormLive ==
  /\ SpecForm
  /\ \A i \in Invocations : WF_pc(AwaitSettles(i))
  /\ WF_vars(\E i \in Invocations : InvokeSettles(i))

\* The checkboxes and switches of the form.
NextAmenities ==
  \/ \E amenity \in AmenityChoices : handleAmenityChange(amenity)
  \/ \E edit \in SwitchEdits : handleInputChange(edit[1], edit[2])
  \/ resetForm

SpecAmenities == Init /\ [][NextAmenities]_vars

(***************************************************************************)
(* The properties page (Properties.tsx) and the tables behind it           *)
(***************************************************************************)
\* The properties whose heart the user clicks.
PropertyIds == {"p1"}

\* The rows with status 'available', in the order of the sort.
PropertyRows ==
  <<[id |-> "p1", property_type |-> "villa"],
    [id |-> "p2", property_type |-> "house"]>>

\* The filter states the page goes through: filters.propertyType.
Queries == {Str(""), Str("villa")}

\* The query fetchProperties builds: eq('property_type', ...) when the
\* filter is set.
QueryResult(q) ==
  SelectSeq(PropertyRows, LAMBDA row : q = "" \/ row.property_type = q)

\* How many requests of the page can be in flight together.
MaxInFlight == 3

SignedInUser == Str("u1")

\* A request on its way to the store.
Sent(kind, arg) ==
  [kind |-> kind, arg |-> arg, phase |-> "sent", ok |-> FALSE,
   ids |-> {}, rows |-> <<>>]

\* useAuth() reports a signed-in user.
SignIn ==
  /\ user = JNull
  /\ user' = SignedInUser
  /\ UNCHANGED <<favorites, stored, properties, pageLoading, query, requests,
                 pageToast>>

\* The effect on [filters, sortBy, sortOrder, searchQuery], on mount and on
\* every change: fetchProperties up to its await and, with a user,
\* fetchFavorites up to its await.
useEffect(q) ==
  /\ q # query
  /\ query' = q
  /\ pageLoading' = TRUE
  /\ requests' = requests \cup {Sent("selectProperties", q.s)}
                   \cup (IF user # JNull
                         THEN {Sent("selectFavorites", user.s)} ELSE {})
  /\ Cardinality(requests') <= MaxInFlight
  /\ UNCHANGED <<user, favorites, stored, properties, pageToast>>

\* The card of the property is on display, and with it its heart button.
Displayed(propertyId) ==
  \E k \in 1..Len(properties) : properties[k].id = propertyId

\* A toggleFavorite without its guard on the user.
toggleFavoriteUnguarded(propertyId) ==
  /\ Displayed(propertyId)
  /\ requests' = requests \cup
       {Sent(IF propertyId \in favorites THEN "delete" ELSE "insert", propertyId)}
  /\ Cardinality(requests') <= MaxInFlight
  /\ UNCHANGED <<user, favorites, stored, properties, pageLoading, query,
                 pageToast>>

\* toggleFavorite up to its return or its await: the delete or the insert
\* is chosen by favorites.has(propertyId) of the current render.
toggleFavorite(propertyId) ==
  /\ Displayed(propertyId)
  /\ IF user = JNull
     THEN /\ pageToast' = "Sign in required"
          /\ UNCHANGED <<user, favorites, stored, properties, pageLoading,
                         query, requests>>
     ELSE /\ requests' = requests \cup
               {Sent(IF propertyId \in favorites THEN "delete" ELSE "insert",
                     propertyId)}
          /\ Cardinality(requests') <= MaxInFlight
          /\ UNCHANGED <<user, favorites, stored, properties, pageLoading,
                         query, pageToast>>

\* The store executes a request and answers: with an error (the client
\* returns it, it does not throw) or with the outcome. An insert of a row
\* that is there violates UNIQUE(user_id, property_id).
StoreAnswers ==
  \E r \in requests, granted \in BOOLEAN :
    LET ok == granted /\ ~(r.kind = "insert" /\ r.arg \in stored)
    IN /\ r.phase = "sent"
       /\ stored' = CASE ok /\ r.kind = "insert" -> stored \cup {r.arg}
                      [] ok /\ r.kind = "delete" -> stored \ {r.arg}
                      [] OTHER -> stored
       /\ requests' = (requests \ {r}) \cup
            {[r EXCEPT !.phase = "answered", !.ok = ok,
                       !.ids = IF ok /\ r.kind = "selectFavorites"
                               THEN stored ELSE {},
                       !.rows = IF ok /\ r.kind = "selectProperties"
                                THEN QueryResult(r.arg) ELSE <<>>]}
       /\ UNCHANGED <<user, favorites, properties, pageLoading, query, pageToast>>

\* toggleFavorite after its await: the answer is not looked at.
ToggleSettles ==
  \E r \in requests :
    /\ r.phase = "answered"
    /\ r.kind \in {"insert", "delete"}
    /\ requests' = requests \ {r}
    /\ IF r.kind = "delete"
       THEN /\ favorites' = favorites \ {r.arg}
            /\ pageToast' = "Removed from favorites"
       ELSE /\ favorites' = favorites \cup {r.arg}
            /\ pageToast' = "Added to favorites"
    /\ UNCHANGED <<user, stored, properties, pageLoading, query>>

\* fetchFavorites after its await.
FavoritesFetched ==
  \E r \in requests :
    /\ r.phase = "answered"
    /\ r.kind = "selectFavorites"
    /\ requests' = requests \ {r}
    /\ favorites' = IF r.ok THEN r.ids ELSE favorites
    /\ UNCHANGED <<user, stored, properties, pageLoading, query, pageToast>>

\* fetchProperties after its await.
PropertiesFetched ==
  \E r \in requests :
    /\ r.phase = "answered"
    /\ r.kind = "selectProperties"
    /\ requests' = requests \ {r}
    /\ IF r.ok
       THEN properties' = r.rows /\ pageToast' = pageToast
       ELSE properties' = properties /\ pageToast' = "Error loading properties"
    /\ pageLoading' = FALSE
    /\ UNCHANGED <<user, favorites, stored, query>>

NextPage ==
  \/ SignIn /\ UNCHANGED <<serverVars, formVars>>
  \/ \E q \in Queries : useEffect(q) /\ UNCHANGED <<serverVars, formVars>>
  \/ \E propertyId \in PropertyIds :
       toggleFavorite(propertyId) /\ UNCHANGED <<serverVars, formVars>>
  \/ StoreAnswers /\ UNCHANGED <<serverVars, formVars>>
  \/ ToggleSettles /\ UNCHANGED <<serverVars, formVars>>
  \/ FavoritesFetched /\ UNCHANGED <<serverVars, formVars>>
  \/ PropertiesFetched /\ UNCHANGED <<serverVars, formVars>>

SpecPage == Init /\ [][NextPage]_vars

(***************************************************************************)
(* Vocabulary of the claims                                                *)
(***************************************************************************)
Done(i) == pc[i] = "done" /\ req[i].method = "POST"

Body(i) == req[i].body

\* A decimal text of a positive integer, or a positive integer.
PositiveInteger(v) ==
  \/ v.t = "number" /\ v.n > 0
  \/ /\ v.t = "chars"
     /\ v.cs # <<>>
     /\ \A k \in 1..Len(v.cs) : IsDigit(v.cs[k])
     /\ DigitRun(v.cs, 0) > 0

AreaOf(v) == IF v.t = "number" THEN v.n ELSE DigitRun(v.cs, 0)

NonEmptyText(v) ==
  \/ v.t = "chars" /\ v.cs # <<>>
  \/ v.t = "string" /\ v.s # ""

Present(body, name) == body.t = "object" /\ GetField(body, name).t # "undefined"

\* The PropertyDescription of the data model: the six required fields are
\* present and valid, and amenities is a collection of labels.
ValidRequest(body) ==
  /\ body.t = "object"
  /\ GetField(body, "amenities").t = "array"
  /\ GetField(body, "propertyType").t = "chars"
  /\ GetField(body, "propertyType").cs \in {apartment, house, villa, penthouse, studio}
  /\ NonEmptyText(GetField(body, "bedrooms"))
  /\ NonEmptyText(GetField(body, "bathrooms"))
  /\ PositiveInteger(GetField(body, "area"))
  /\ NonEmptyText(GetField(body, "city"))
  /\ NonEmptyText(GetField(body, "state"))

LacksRequiredField(body) ==
  /\ body.t = "object"
  /\ \E name \in RequiredFields : ~Present(body, name)

\* The remote call failed: fetch rejected, or a status outside 200..299.
RemoteFailed(i) ==
  \/ remote[i].fetch = NetworkError
  \/ remote[i].fetch.t = "status" /\ remote[i].fetch.code \notin 200..299

\* The remote call succeeded and delivered a content.
HasContent(i) ==
  /\ remote[i].data.t = "object"
  /\ ~IsThrow(ExtractContent(remote[i].data))

ContentOf(i) == ExtractContent(remote[i].data)

\* The content is no JSON text.
ContentUnparseable(i) ==
  /\ HasContent(i)
  /\ \/ ContentOf(i).t = "undefined"
     \/ ContentOf(i).t = "string" /\ ContentOf(i).s \notin DOMAIN JsonTexts

\* The content is JSON without one of estimatedPrice, priceRange, factors.
ContentIncomplete(i) ==
  /\ HasContent(i)
  /\ ~ContentUnparseable(i)
  /\ LET v == JSONParse(ContentOf(i))
     IN \/ v.t # "object"
        \/ \E name \in {"estimatedPrice", "priceRange", "factors"} :
             name \notin DOMAIN v.o

\* The heuristic as the specification words it: rate by type, default 250;
\* multiplier by lower-cased city, default 1.0; kept as tenths of a dollar.
SpecRate(type) == IF type \in DOMAIN baseRates THEN baseRates[type] ELSE 250

SpecMultiplier(city) ==
  IF toLowerCase(city) \in DOMAIN cityMultipliers
  THEN cityMultipliers[toLowerCase(city)] ELSE 10

SpecBaseTenths(body) ==
  AreaOf(GetField(body, "area")) * SpecRate(GetField(body, "propertyType").cs)
    * SpecMultiplier(GetField(body, "city").cs)

\* round(n / d), halves up; d is even.
SpecRound(n, d) == (n + d \div 2) \div d

\* The inputs of the heuristic are an area, a type and a city.
HeuristicInputs(body) ==
  /\ body.t = "object"
  /\ PositiveInteger(GetField(body, "area"))
  /\ GetField(body, "propertyType").t = "chars"
  /\ GetField(body, "city").t = "chars"

IsSuccess(i) == response[i].kind = "success"

IsError(i) == response[i].kind = "error"

Estimate(i) == response[i].body.o.prediction

\* The estimate is the heuristic one of the specification for this body:
\* price and range from the unrounded base price, 0.85 = 17/20, 1.15 = 23/20.
IsSpecHeuristic(i) ==
  /\ IsSuccess(i)
  /\ Estimate(i).t = "object"
  /\ Estimate(i).o.estimatedPrice = Num(SpecRound(SpecBaseTenths(Body(i)), 10))
  /\ Estimate(i).o.priceRange =
       Obj([min |-> Num(SpecRound(SpecBaseTenths(Body(i)) * 17, 200)),
            max |-> Num(SpecRound(SpecBaseTenths(Body(i)) * 23, 200))])

InPercent(v) == v.t = "number" /\ v.n >= 0 /\ v.n <= 100

\* The invariants of PriceEstimate.
WellFormedEstimate(p) ==
  /\ p.t = "object"
  /\ {"estimatedPrice", "priceRange", "confidence", "factors",
      "comparableProperties"} \subseteq DOMAIN p.o
  /\ p.o.estimatedPrice.t = "number" /\ p.o.estimatedPrice.n > 0
  /\ p.o.priceRange.t = "object"
  /\ {"min", "max"} \subseteq DOMAIN p.o.priceRange.o
  /\ p.o.priceRange.o.min.t = "number" /\ p.o.priceRange.o.max.t = "number"
  /\ p.o.priceRange.o.min.n <= p.o.estimatedPrice.n
  /\ p.o.estimatedPrice.n <= p.o.priceRange.o.max.n
  /\ InPercent(p.o.confidence)
  /\ p.o.factors.t = "object"
  /\ \A k \in DOMAIN p.o.factors.o : InPercent(p.o.factors.o[k])
  /\ p.o.comparableProperties.t = "array"
  /\ Len(p.o.comparableProperties.a) = 3
  /\ \A k \in 1..3 :
       /\ p.o.comparableProperties.a[k].t = "object"
       /\ "similarity" \in DOMAIN p.o.comparableProperties.a[k].o
       /\ InPercent(p.o.comparableProperties.a[k].o.similarity)

(***************************************************************************)
(* Claims                                                                  *)
(***************************************************************************)
\* C1: every request whose required fields are present and valid ends,
\* whatever the remote call does, in a success response whose estimate has
\* estimatedPrice > 0, min <= estimatedPrice <= max, confidence and every
\* factor in [0,100], and exactly 3 comparables with similarity in [0,100].
C1_EstimateAlwaysWellFormed ==
  \A i \in Invocations :
    Done(i) /\ ValidRequest(Body(i))
      => IsSuccess(i) /\ WellFormedEstimate(Estimate(i))

\* C2: a request that lacks one of the six required fields is rejected and
\* never issues the remote call.
C2_MissingFieldRejected ==
  \A i \in Invocations :
    req[i].method = "POST" /\ LacksRequiredField(Body(i))
      => fetches[i] = 0 /\ (pc[i] = "done" => IsError(i))

\* C3: when the fetch rejects or answers with a non-success status, a valid
\* request still ends in a success response that carries the heuristic
\* estimate of the fallback path.
C3_RemoteFailureFallsBack ==
  \A i \in Invocations :
    Done(i) /\ ValidRequest(Body(i)) /\ RemoteFailed(i)
      => fallback[i] /\ IsSpecHeuristic(i)

\* C4: when the remote call succeeds with a content that is no JSON, every
\* valid request ends in a success response carrying the heuristic estimate.
C4_UnparseableFallsBack ==
  \A i \in Invocations :
    Done(i) /\ ValidRequest(Body(i)) /\ ContentUnparseable(i)
      => IsSpecHeuristic(i)

\* C5: when the content is JSON that lacks estimatedPrice, priceRange or
\* factors (null, a number, a string and an array included), a valid request
\* ends as after a parse failure: success, with the heuristic estimate.
C5_IncompleteFallsBack ==
  \A i \in Invocations :
    Done(i) /\ ValidRequest(Body(i)) /\ ContentIncomplete(i)
      => fallback[i] /\ IsSuccess(i)

\* C6: on the fallback path, for every positive integer area, every type
\* and every city, estimatedPrice = round(basePrice) and the range is
\* round(basePrice x 0.85) .. round(basePrice x 1.15) of the unrounded
\* basePrice = area x rate(type) x multiplier(city).
C6_FallbackFormula ==
  \A i \in Invocations :
    Done(i) /\ fallback[i] /\ HeuristicInputs(Body(i))
      => /\ IsSuccess(i)
         /\ Estimate(i).o.estimatedPrice = Num(SpecRound(SpecBaseTenths(Body(i)), 10))
         /\ Estimate(i).o.priceRange.o.min =
              Num(SpecRound(SpecBaseTenths(Body(i)) * 17, 200))
         /\ Estimate(i).o.priceRange.o.max =
              Num(SpecRound(SpecBaseTenths(Body(i)) * 23, 200))

\* The request of the documented scenario: a villa of 2000 sq ft in Miami.
IsVillaScenario(body) ==
  /\ body.t = "object"
  /\ GetField(body, "propertyType") = Chars(villa)
  /\ GetField(body, "area") \in {Chars(<<"2", "0", "0", "0">>), Num(2000)}
  /\ GetField(body, "city") = Chars(Miami)

\* C7: with the remote call failing, a villa of 2000 sq ft in Miami gets
\* estimatedPrice 1,440,000, range 1,224,000 .. 1,656,000, confidence 75.
C7_VillaScenario ==
  \A i \in Invocations :
    Done(i) /\ IsVillaScenario(Body(i)) /\ RemoteFailed(i)
      => /\ IsSuccess(i)
         /\ Estimate(i).o.estimatedPrice = Num(1440000)
         /\ Estimate(i).o.priceRange = Obj([min |-> Num(1224000), max |-> Num(1656000)])
         /\ Estimate(i).o.confidence = Num(75)

\* C8: on the fallback path a type that is no key of the rate table uses
\* 250 and a city whose lower-cased name is no key of the multiplier table
\* uses 1.0, so the estimate is area x 250; the rate table is exactly
\* {apartment: 200, house: 250, villa: 400, penthouse: 500, studio: 300}.
C8_Defaults ==
  /\ baseRates = (apartment :> 200) @@ (house :> 250) @@ (villa :> 400)
                   @@ (penthouse :> 500) @@ (studio :> 300)
  /\ \A i \in Invocations :
       /\ Done(i) /\ fallback[i] /\ HeuristicInputs(Body(i))
       /\ GetField(Body(i), "propertyType").cs \notin DOMAIN baseRates
       /\ toLowerCase(GetField(Body(i), "city").cs) \notin DOMAIN cityMultipliers
       => /\ IsSuccess(i)
          /\ Estimate(i).o.estimatedPrice =
               Num(AreaOf(GetField(Body(i), "area")) * 250)

\* Two requests agree on the inputs of the heuristic.
SameHeuristicInputs(a, b) ==
  \A name \in {"area", "propertyType", "city"} : GetField(a, name) = GetField(b, name)

\* C9: two invocations that both take the fallback path with the same area,
\* type and city return responses identical in every field, whatever else
\* their requests and their remote replies hold.
C9_FallbackDeterminism ==
  \A i, j \in Invocations :
    /\ Done(i) /\ Done(j) /\ fallback[i] /\ fallback[j]
    /\ SameHeuristicInputs(Body(i), Body(j))
    => response[i] = response[j]

\* Two fallback responses are out at once, for requests and remote replies
\* that differ outside the inputs of the heuristic.
C9_Witness ==
  /\ Done(1) /\ Done(2) /\ fallback[1] /\ fallback[2]
  /\ IsSuccess(1) /\ IsSuccess(2)
  /\ SameHeuristicInputs(Body(1), Body(2))
  /\ Body(1) # Body(2)
  /\ remote[1] # remote[2]

\* C10: a request that passed the form's validation and reached the
\* fallback heuristic ends in a success response.
C10_FallbackAlwaysSucceeds ==
  \A i \in Invocations :
    Done(i) /\ fallback[i] /\ FormValid(Body(i)) => IsSuccess(i)

\* The estimate a fallback owes to a type of the rate table when the city's
\* multiplier is m tenths.
PriceAt(body, m) ==
  Num(SpecRound(AreaOf(GetField(body, "area"))
                  * baseRates[GetField(body, "propertyType").cs] * m, 10))

\* C11: the multiplier is looked up by the lower-cased city, so every casing
\* of a city gets the same fallback estimate ("MIAMI", "Miami" and "miami"
\* all use 1.8), and a city that is no key of the table uses 1.0.
C11_CityLookup ==
  \A i \in Invocations :
    /\ Done(i) /\ fallback[i] /\ HeuristicInputs(Body(i))
    /\ GetField(Body(i), "propertyType").cs \in DOMAIN baseRates
    => LET city == GetField(Body(i), "city").cs
       IN /\ IsSuccess(i)
          /\ city \in {MIAMI, Miami, miami}
               => Estimate(i).o.estimatedPrice = PriceAt(Body(i), 18)
          /\ toLowerCase(city) \notin DOMAIN cityMultipliers
               => Estimate(i).o.estimatedPrice = PriceAt(Body(i), 10)

\* C12: every estimate the fallback path produces has confidence exactly 75
\* and factors exactly {location: 80, size: 85, bedrooms: 75, bathrooms: 75,
\* amenities: 70, market: 80}, whatever the request and the remote reply.
C12_FallbackConfidenceAndFactors ==
  \A i \in Invocations :
    fallback[i] /\ prediction[i].t = "object"
      => /\ prediction[i].o.confidence = Num(75)
         /\ prediction[i].o.factors =
              Obj([location |-> Num(80), size |-> Num(85), bedrooms |-> Num(75),
                   bathrooms |-> Num(75), amenities |-> Num(70), market |-> Num(80)])
         /\ IsSuccess(i) => Estimate(i) = prediction[i]

\* A fallback estimate of at least a million is out.
C12_Witness ==
  /\ Done(1) /\ fallback[1] /\ IsSuccess(1)
  /\ Estimate(1).o.estimatedPrice.n >= 1000000
  /\ Estimate(1).o.confidence = Num(75)

\* The three comparables the fallback owes to the base price p: prices
\* round(p x 0.95), round(p x 1.08), round(p x 0.92), with fixed distance
\* texts and similarities.
SpecComparables(p) ==
  Arr(<<Obj([price |-> Num(SpecRound(p * 95, 100)),
             distance |-> Str("0.5 miles"), similarity |-> Num(92)]),
        Obj([price |-> Num(SpecRound(p * 108, 100)),
             distance |-> Str("0.8 miles"), similarity |-> Num(88)]),
        Obj([price |-> Num(SpecRound(p * 92, 100)),
             distance |-> Str("1.2 miles"), similarity |-> Num(85)])>>)

\* How many comparables of the estimate e are priced above its price.
ComparablesAbove(e) ==
  Cardinality({k \in 1..Len(e.o.comparableProperties.a) :
                 e.o.comparableProperties.a[k].o.price.n > e.o.estimatedPrice.n})

ComparablesShape(e) ==
  /\ e.o.comparableProperties = SpecComparables(e.o.estimatedPrice.n)
  /\ Len(e.o.comparableProperties.a) = 3
  /\ ComparablesAbove(e) = 1
  /\ \A k \in 1..3 : InPercent(e.o.comparableProperties.a[k].o.similarity)

NumericEstimate(e) ==
  /\ e.t = "object"
  /\ {"estimatedPrice", "priceRange", "factors"} \subseteq DOMAIN e.o
  /\ e.o.estimatedPrice.t = "number"
  /\ e.o.priceRange.t = "object"
  /\ {"min", "max"} \subseteq DOMAIN e.o.priceRange.o
  /\ e.o.priceRange.o.min.t = "number"
  /\ e.o.priceRange.o.max.t = "number"
  /\ e.o.factors.t = "object"
  /\ \A k \in DOMAIN e.o.factors.o : e.o.factors.o[k].t = "number"

\* C14: on both paths, the remote one and the fallback, every success
\* response carries an estimate whose estimatedPrice is a number, whose
\* priceRange has a numeric min and max, and whose factors are an object of
\* numbers.
C14_SuccessIsNumeric ==
  \A i \in Invocations : Done(i) /\ IsSuccess(i) => NumericEstimate(Estimate(i))

\* One of the six required fields of the form is empty.
RequiredFieldEmpty ==
  \E name \in RequiredFields : formData[name] \in {Str(""), Chars(<<>>)}

\* This step is handleSubmit running up to its return or its await.
SubmitStep ==
  /\ event' # event
  /\ event'.name = "handleSubmit"
  /\ event'.arg \in {Str("rejected"), Str("invoked")}

\* C15: a submission with any of the six required fields empty is rejected:
\* the "Missing information" notice is shown, no invocation of the function
\* is issued, loading stays false and the prediction on display stays as it
\* was; a submission with every required field filled, bedrooms "0"
\* included, is not rejected.
C15_FormRejectsMissingFields ==
  [][SubmitStep =>
       IF RequiredFieldEmpty
       THEN /\ event'.arg = Str("rejected")
            /\ toast' = "Missing information"
            /\ UNCHANGED serverVars
            /\ loading' = FALSE
            /\ formPrediction' = formPrediction
       ELSE /\ event'.arg = Str("invoked")
            /\ pc[1] = "idle" /\ pc'[1] = "body"
            /\ req'[1].body = JsonRoundTrip(Obj(formData))]_vars

\* A submission was rejected while an earlier estimate is on display.
C15_Witness ==
  /\ event = [name |-> "handleSubmit", arg |-> Str("rejected")]
  /\ toast = "Missing information"
  /\ RequiredFieldEmpty
  /\ formPrediction # JNull
  /\ ~loading

\* C16: an invocation issues at most one remote call: no second fetch
\* follows a failure, on any path.
C16_AtMostOneRemoteCall ==
  \A i \in Invocations :
    /\ fetches[i] <= 1
    /\ pc[i] \in {"fetching", "reading"} => fetches[i] = 1
    /\ remote[i].fetch # Undef => fetches[i] = 1

\* The one remote call failed and the invocation has its response.
C16_Witness ==
  /\ Done(1) /\ RemoteFailed(1)
  /\ fetches[1] = 1
  /\ IsError(1)

\* The entry of the prompt that carries a field of the request.
PromptEntry(name) == IF name = "propertyType" THEN "type" ELSE name

\* The optional fields the prompt renders as their value or a placeholder.
OptionalTextFields == {"zipcode", "address", "yearBuilt", "parkingSpaces"}

\* The request does not supply the field.
Missing(body, name) == GetField(body, name) \in {Undef, JNull, Str("")}

\* C17: the prompt embeds every field of the request (type, bedrooms,
\* bathrooms, area, city, state, zipcode, address, year built, parking
\* spaces, furnished, pet friendly, amenities); a missing optional field is
\* rendered as 'Not provided', a supplied one, parkingSpaces = 0 included,
\* as its value.
C17_PromptEmbedsEveryField ==
  \A i \in Invocations :
    prompt[i].t = "object"
      => /\ \A name \in FieldNames : PromptEntry(name) \in DOMAIN prompt[i].o
         /\ \A name \in OptionalTextFields :
              GetField(prompt[i], name) =
                IF Missing(propertyData[i], name)
                THEN Str("Not provided")
                ELSE GetField(propertyData[i], name)

\* What the handler keeps for invocation i.
Slot(i) ==
  <<pc[i], req[i], propertyData[i], prompt[i], fetches[i], remote[i],
    prediction[i], fallback[i], response[i]>>

\* A step of one invocation leaves the other as it was.
StepsAreLocal ==
  \A i, j \in Invocations :
    i # j /\ Slot(i)' # Slot(i) => Slot(j)' = Slot(j)

\* C18: under any interleaving of two invocations in flight, a step of one
\* leaves the other's state alone, and the response of each follows from
\* its own request and its own remote reply: two invocations with the same
\* request and the same reply have the same response, wherever the other
\* one stood when each step was taken.
C18_InvocationsIndependent ==
  /\ [][StepsAreLocal]_vars
  /\ [](\A i, j \in Invocations :
          Done(i) /\ Done(j) /\ Body(i) = Body(j) /\ remote[i] = remote[j]
            => response[i] = response[j] /\ prediction[i] = prediction[j])
  /\ [](\A i \in Invocations :
          Done(i) /\ remote[i].data # Undef
            => response[i] = HandleData(Body(i), remote[i].data).response)

\* Both invocations have answered, with different estimates for different
\* requests and replies.
C18_Witness ==
  /\ Done(1) /\ Done(2)
  /\ IsSuccess(1) /\ IsSuccess(2)
  /\ Body(1) # Body(2)
  /\ remote[1] # remote[2]
  /\ response[1] # response[2]

Amenities == formData.amenities.a

Checked == {Amenities[k] : k \in 1..Len(Amenities)}

NoDuplicate(s) == \A j, k \in 1..Len(s) : j # k => s[j] # s[k]

\* This step is a click on the checkbox of `amenity`.
ClickOn(amenity) ==
  /\ event'.name = "handleAmenityChange"
  /\ event'.arg = amenity
  /\ formData' # formData

\* C20: after any sequence of clicks on the amenity checkboxes the list
\* formData.amenities holds no label twice and holds exactly the labels
\* whose checkbox is checked: a click on an unchecked box adds its label, a
\* click on a checked one removes it, no other label comes or goes, and the
\* labels that stay keep their relative order.
C20_AmenitiesFollowCheckboxes ==
  /\ [](NoDuplicate(Amenities))
  /\ [][\A amenity \in AmenityChoices :
          ClickOn(amenity)
            => /\ Checked' = IF amenity \in Checked
                             THEN Checked \ {amenity}
                             ELSE Checked \cup {amenity}
               /\ SelectSeq(Amenities', LAMBDA a : a # amenity)
                    = SelectSeq(Amenities, LAMBDA a : a # amenity)
               /\ NoDuplicate(Amenities')]_vars

\* Parking, Swimming Pool and Gym were checked against the order of their
\* boxes and Gym unchecked again; the other two are still there, in the
\* order of their clicks.
C20_Witness ==
  /\ event = [name |-> "handleAmenityChange", arg |-> Str("Gym")]
  /\ Amenities = <<Str("Parking"), Str("Swimming Pool")>>

\* The invocations of the function that are in flight.
InFlight == {i \in Invocations : pc[i] # "idle"}

\* C21: in the form, loading is true only while an invocation of
\* 'predict-price' is in flight, at most one invocation is in flight at a
\* time, and every submission that starts an invocation is followed by
\* loading being false again, whether the function answers with success or
\* with an error or is not reached at all.
C21_LoadingFollowsInvocation ==
  /\ [](loading => InFlight # {})
  /\ [](Cardinality(InFlight) <= 1)
  /\ [](loading ~> ~loading)

\* An invocation is in flight, loading is true, and an earlier one has come
\* back with an error.
C21_Witness ==
  /\ loading
  /\ Cardinality(InFlight) = 1
  /\ toast = "Prediction failed"

\* C22: after resetForm has run and until the user edits the form or
\* submits again, the prediction on display is null and every field of the
\* form is empty, also when an invocation was in flight at the reset and
\* its response arrives afterwards.
C22_ResetStays ==
  event.name = "resetForm" => formPrediction = JNull /\ formData = EmptyForm

\* The inserts and deletes of user_favorites that are in flight.
ToggleRequests == {r \in requests : r.kind \in {"insert", "delete"}}

\* C23: with no signed-in user toggleFavorite issues no insert and no delete
\* of user_favorites and leaves the local favorites set as it is; all it
\* does is show the "Sign in required" notice.
C23_ToggleNeedsUser ==
  /\ [](user = JNull => ToggleRequests = {} /\ stored = {} /\ favorites = {})
  /\ [][user = JNull /\ pageToast' # pageToast
          => /\ pageToast' \in {"Sign in required", "Error loading properties"}
             /\ ToggleRequests' = ToggleRequests
             /\ UNCHANGED <<favorites, stored, user>>]_vars

\* The notice is up, nobody is signed in, and the page has data on display.
C23_Witness ==
  /\ user = JNull
  /\ pageToast = "Sign in required"
  /\ properties # <<>>
  /\ favorites = {}

\* The requests of toggleFavorite and fetchFavorites that are in flight.
FavoriteRequests ==
  {r \in requests : r.kind \in {"insert", "delete", "selectFavorites"}}

\* C24: for a signed-in user, once every pending toggleFavorite and
\* fetchFavorites has completed, the local favorites set equals the set of
\* property ids stored for the user in user_favorites, under every
\* interleaving of toggles and re-fetches and also when an insert or a
\* delete returns an error.
C24_FavoritesMatchStore ==
  user # JNull /\ FavoriteRequests = {} => favorites = stored

\* The requests of fetchProperties that are in flight.
PropertyRequests == {r \in requests : r.kind = "selectProperties"}

\* C25: once every fetchProperties set off by the changes of filter, sort
\* and search has completed, the list on display is the result of the query
\* for the latest of these states, and loading is false only when no fetch
\* is in flight.
C25_LatestQueryDisplayed ==
  /\ query # Undef /\ PropertyRequests = {}
       => properties = QueryResult(query.s)
  /\ ~pageLoading => PropertyRequests = {}

\* C26: a CORS preflight (OPTIONS) is answered at once with the CORS headers
\* and an empty body: its body is never read, no remote call is made and no
\* prediction is computed.
C26_PreflightAnsweredAtOnce ==
  \A i \in Invocations :
    req[i].method = "OPTIONS"
      => /\ pc[i] = "done"
         /\ response[i].kind = "preflight"
         /\ response[i].cors /\ response[i].body = JNull
         /\ propertyData[i] = Undef /\ prompt[i] = Undef
         /\ fetches[i] = 0 /\ remote[i] = NoRemote
         /\ prediction[i] = Undef /\ ~fallback[i]

\* A preflight that came with a body has its answer.
C26_Witness ==
  /\ req[1].method = "OPTIONS"
  /\ req[1].body \in HeuristicRequests
  /\ response[1] = Preflight

\* The response is one of the two the handler has for a request.
SuccessShape(r) ==
  /\ r.kind = "success" /\ r.status = 200 /\ r.cors
  /\ DOMAIN r.body.o = {"prediction"}
  /\ \A name \in {"estimatedPrice", "priceRange", "factors"} :
       Truthy(GetField(r.body.o.prediction, name))

ErrorShape(r) ==
  /\ r.kind = "error" /\ r.status = 500 /\ r.cors
  /\ DOMAIN r.body.o = {"error", "message"}
  /\ r.body.o.error = Str("Failed to generate price prediction")
  /\ r.body.o.message.t = "string"

\* C27: every request other than OPTIONS ends, and ends in exactly one of
\* two responses, both with the CORS headers: a success response whose body
\* is {prediction} with truthy estimatedPrice, priceRange and factors, or a
\* status-500 response with error 'Failed to generate price prediction' and
\* the failure's message.
C27_OneOfTwoResponses ==
  /\ [](\A i \in Invocations :
          Done(i) => (SuccessShape(response[i]) /\ ~ErrorShape(response[i]))
                       \/ (ErrorShape(response[i]) /\ ~SuccessShape(response[i])))
  /\ [](\A i \in Invocations :
          req[i].method = "POST" /\ pc[i] # "done" => response[i] = NoResponse)
  /\ (pc[1] = "body" ~> pc[1] = "done")

\* A request whose body was no JSON has its 500 response.
C27_Witness ==
  /\ Done(1)
  /\ Body(1) = MalformedBody
  /\ ErrorShape(response[1])
  /\ response[1].body.o.message = Str("Unexpected token")

=============================================================================
